---- MODULE Spec2Model ----
(***************************************************************************)
(* Model of src/main.go: a one-shot program that uploads the files matched *)
(* by a glob pattern to a remote folder store.  Strings that the program   *)
(* takes apart or concatenates (paths, names, prefixes) are sequences of   *)
(* one-character strings; ids are opaque tuples.                           *)
(*                                                                         *)
(* The glob result is an input the program never changes and reads one     *)
(* element at a time: the model keeps its length (nFiles) and draws the    *)
(* element under the range loop (file) when the loop reaches it.  The log  *)
(* of remote calls (calls) is kept per file.                               *)
(*                                                                         *)
(* The remote service is a black box: a list call returns any list of up   *)
(* to MaxList objects, the k-th named by its position, and any call may    *)
(* fail.  The folder store has no cycles and gives new folders new ids, so *)
(* no id it returns is the configured root id.  A nil service (drive.New   *)
(* failed) panics at the first remote call.                                *)
(***************************************************************************)
EXTENDS Integers, Sequences, FiniteSets, TLC

\* ---------------------------------------------------------------- bounds
\* longest glob result (number of matched paths)
MaxFiles == 2
\* longest result list returned by a remote list call
MaxList == 2

\* ---------------------------------------------------------------- strings
Sep == "/"

\* strings.Split(s, "/") from position i on, cur being the element in progress
RECURSIVE SplitFrom(_, _, _)
SplitFrom(s, cur, i) ==
    IF i > Len(s) THEN <<cur>>
    ELSE IF s[i] = Sep THEN <<cur>> \o SplitFrom(s, <<>>, i + 1)
    ELSE SplitFrom(s, Append(cur, s[i]), i + 1)

Split(s) == SplitFrom(s, <<>>, 1)

\* strings.Join(elems, "/")
RECURSIVE Join(_)
Join(elems) ==
    IF elems = <<>> THEN <<>>
    ELSE IF Len(elems) = 1 THEN elems[1]
    ELSE elems[1] \o <<Sep>> \o Join(Tail(elems))

DotDot == <<".", ".">>

\* the element loop of filepath.Clean: out is the stack of kept elements
RECURSIVE CleanElems(_, _, _, _)
CleanElems(elems, i, out, rooted) ==
    IF i > Len(elems) THEN out
    ELSE LET e == elems[i] IN
         IF e = <<>> \/ e = <<".">> THEN CleanElems(elems, i + 1, out, rooted)
         ELSE IF e = DotDot
              THEN IF out # <<>> /\ out[Len(out)] # DotDot
                   THEN CleanElems(elems, i + 1, SubSeq(out, 1, Len(out) - 1), rooted)
                   ELSE IF rooted THEN CleanElems(elems, i + 1, out, rooted)
                   ELSE CleanElems(elems, i + 1, Append(out, e), rooted)
              ELSE CleanElems(elems, i + 1, Append(out, e), rooted)

\* filepath.Clean (unix)
Clean(path) ==
    IF path = <<>> THEN <<".">>
    ELSE LET rooted == path[1] = Sep
             out == CleanElems(Split(path), 1, <<>>, rooted)
         IN  IF rooted THEN <<Sep>> \o Join(out)
             ELSE IF out = <<>> THEN <<".">> ELSE Join(out)

\* index of the last separator of path, 0 when there is none
RECURSIVE LastSep(_, _)
LastSep(path, i) ==
    IF i = 0 THEN 0
    ELSE IF path[i] = Sep THEN i ELSE LastSep(path, i - 1)

\* filepath.Dir (unix, no volume name)
Dir(path) == Clean(SubSeq(path, 1, LastSep(path, Len(path))))

\* path without its trailing separators
RECURSIVE StripTrailing(_)
StripTrailing(path) ==
    IF path # <<>> /\ path[Len(path)] = Sep
    THEN StripTrailing(SubSeq(path, 1, Len(path) - 1))
    ELSE path

\* filepath.Base (unix, no volume name)
Base(path) ==
    IF path = <<>> THEN <<".">>
    ELSE LET p == StripTrailing(path)
             q == SubSeq(p, LastSep(p, Len(p)) + 1, Len(p))
         IN  IF q = <<>> THEN <<Sep>> ELSE q

\* strings.Split(filepath.Dir(file), string(os.PathSeparator))
DirectoryStructureMissingDot(f) == IF Dir(f) = <<".">> THEN <<>> ELSE Split(Dir(f))

DirectoryStructure(f) == Split(Dir(f))

\* strconv.ParseBool with its error dropped: the flag is false on any other text
ParseBool(s) == s \in {"1", "t", "T", "TRUE", "true", "True"}

\* ---------------------------------------------------------------- inputs
\* texts a boolean input may carry
BoolInputs == {"", "true", "false", "yes"}

\* paths a glob may match: no directory, one, two, an absolute one, and a
\* directory named with its trailing separator
Paths == { <<"f">>,
           <<"a", "/", "f">>,
           <<"a", "/", "b", "/", "f">>,
           <<"/", "a", "/", "f">>,
           <<"d", "/">> }

\* what os.Lstat may say of a matched path: a path that ends in a separator
\* names a directory or fails
LstatOutcomes(f) ==
    IF f[Len(f)] = Sep THEN {"err", "dir"} ELSE {"err", "dir", "reg"}

Names == { <<>>, <<"N">> }

Prefixes == { <<>>, <<"p">> }

\* a name other than the one asked for, and a folder other than the one meant
OtherName == <<"o">>

\* ids: the configured root, an unrelated folder, no id
RootId == <<"R", 0, 0>>

Elsewhere == <<"z", 0, 0>>

NoId == <<"none", 0, 0>>

\* id of the k-th object of a folder list, of a file list
FolderObjId(k) == <<"g", k, 0>>

FileObjId(k) == <<"x", k, 0>>

\* id the service gives the folder created for segment j of file i
NewFolderId(i, j) == <<"n", i, j>>

\* parent sets an object returned by a lookup may have, seen from folder cur
ParentSets(cur) == { {cur}, {Elsewhere}, {cur, Elsewhere} }

Nil == [id |-> NoId, name |-> <<>>, parents |-> {}]

NoList == [kind |-> "none", files |-> <<>>]

\* result lists of the folder lookup for segment seg, seen from folder cur
FolderLists(seg, cur) ==
    UNION { { [k \in 1..n |-> [id |-> FolderObjId(k), name |-> seg, parents |-> ps[k]]]
              : ps \in [1..n -> ParentSets(cur)] } : n \in 0..MaxList }

\* result lists of the file lookup for name nm, seen from folder cur
FileLists(nm, cur) ==
    UNION { { [k \in 1..n |-> [id |-> FileObjId(k), name |-> o[k][1], parents |-> o[k][2]]]
              : o \in [1..n -> {nm, OtherName} \X ParentSets(cur)] } : n \in 0..MaxList }

Call(op, kind, nm, folder, id, ok) ==
    [op |-> op, kind |-> kind, name |-> nm, folder |-> folder, id |-> id, ok |-> ok]

\* ---------------------------------------------------------------- pure steps
\* the scan of createDriveDirectory that stops at the first folder found
RECURSIVE ScanFoldersFirstFrom(_, _, _)
ScanFoldersFirstFrom(files, i, fid) ==
    IF i > Len(files) THEN [found |-> 0, next |-> NoId]
    ELSE IF fid \in files[i].parents THEN [found |-> 1, next |-> files[i].id]
    ELSE ScanFoldersFirstFrom(files, i + 1, fid)

ScanFoldersFirst(files, fid) == ScanFoldersFirstFrom(files, 1, fid)

\* the scan of createDriveDirectory: every returned folder that has fid among
\* its parents is counted and its id overwrites nextFolderId
RECURSIVE ScanFoldersFrom(_, _, _, _)
ScanFoldersFrom(files, i, fid, acc) ==
    IF i > Len(files) THEN acc
    ELSE IF fid \in files[i].parents
         THEN ScanFoldersFrom(files, i + 1, fid,
                              [found |-> acc.found + 1, next |-> files[i].id])
         ELSE ScanFoldersFrom(files, i + 1, fid, acc)

ScanFolders(files, fid) ==
    ScanFoldersFrom(files, 1, fid, [found |-> 0, next |-> NoId])

\* the scan of uploadFile without its break: the last same-named object wins
RECURSIVE SelectLastNamedFrom(_, _, _, _)
SelectLastNamedFrom(files, i, nm, cur) ==
    IF i > Len(files) THEN cur
    ELSE IF nm = files[i].name THEN SelectLastNamedFrom(files, i + 1, nm, files[i])
    ELSE SelectLastNamedFrom(files, i + 1, nm, cur)

SelectLastNamed(files, nm, fid) == SelectLastNamedFrom(files, 1, nm, Nil)

\* the scan of uploadFile: currentFile is set on every name match, and the
\* loop stops at the first name match that has fid among its parents
RECURSIVE SelectCurrentFileFrom(_, _, _, _, _)
SelectCurrentFileFrom(files, i, nm, fid, cur) ==
    IF i > Len(files) THEN cur
    ELSE IF nm = files[i].name
         THEN IF fid \in files[i].parents THEN files[i]
              ELSE SelectCurrentFileFrom(files, i + 1, nm, fid, files[i])
         ELSE SelectCurrentFileFrom(files, i + 1, nm, fid, cur)

SelectCurrentFile(files, nm, fid) == SelectCurrentFileFrom(files, 1, nm, fid, Nil)

UseSourceFilename(n) == n > 1

\* the name resolver with its prefix step left out
TargetNameNoPrefix(f, complete, n, nm, prefix) ==
    IF complete THEN f
    ELSE IF UseSourceFilename(n) \/ nm = <<>> THEN Base(f)
    ELSE nm

\* targetName before the emptiness test, then with the prefix
TargetName(f, complete, n, nm, prefix) ==
    LET t == IF complete THEN f
             ELSE IF UseSourceFilename(n) \/ nm = <<>> THEN Base(f)
             ELSE nm
    IN  IF t = <<>> THEN t
        ELSE IF prefix # <<>> THEN prefix \o t ELSE t

\* the loop start that keeps the folder the previous file ended in
KeepFolderId(original, current) == current

\* folderId = originalFolderId at the top of every iteration
StartFolderId(original, current) == original

\* a lookup made whatever the flag says
AlwaysLookup(flag) == TRUE

\* uploadFile looks the name up only when overwriteFlag is set
LookupWanted(flag) == flag

\* an error that is logged while the program goes on to next
FatalfReturns(next) == next

\* githubactions.Fatalf and log.Fatalf end the process
Fatalf(next) == "fatal"

\* a directory that is not skipped
NeverSkip(isDir) == FALSE

\* uploadToDrive returns early on a directory
SkipDirectory(isDir) == isDir

\* ---------------------------------------------------------------- state
VARIABLES
    pc,                 \* position in main
    startErr,           \* the start-up step that failed, "none" if none
    failed,             \* the per-file step that failed, "none" if none
    nFiles,             \* len(files)
    name, originalFolderId, overwriteFlag,
    useCompleteSourceFilenameAsNameFlag, mirrorDirectoryStructureFlag,
    filenamePrefix,
    svcNil,             \* drive.New returned an error, svc is nil
    idx,                \* number of the file under the range loop, from 1
    file,               \* files[idx]
    folderId,
    directoryStructure, dirIdx,
    adopted,            \* ids returned by createDriveDirectory for this file
    targetName,
    r,                  \* the list result in scope: of createDriveDirectory, of uploadFile
    currentFile,
    fi,                 \* lstat of this file: "none", "err", "dir", "reg"
    opened,             \* os.Open of this file succeeded
    calls               \* remote calls issued for this file, in order

vars == <<pc, startErr, failed, nFiles, name, originalFolderId, overwriteFlag,
          useCompleteSourceFilenameAsNameFlag, mirrorDirectoryStructureFlag,
          filenamePrefix, svcNil, idx, file, folderId, directoryStructure, dirIdx,
          adopted, targetName, r, currentFile, fi, opened, calls>>

config == <<nFiles, name, originalFolderId, overwriteFlag,
            useCompleteSourceFilenameAsNameFlag, mirrorDirectoryStructureFlag,
            filenamePrefix, svcNil>>

perFile == <<idx, file, folderId, directoryStructure, dirIdx, adopted, targetName,
             r, currentFile, fi, opened, calls>>

Init ==
    /\ pc = "GetFilename"
    /\ startErr = "none"
    /\ failed = "none"
    /\ nFiles = 0
    /\ name = <<>>
    /\ originalFolderId = NoId
    /\ overwriteFlag = FALSE
    /\ useCompleteSourceFilenameAsNameFlag = FALSE
    /\ mirrorDirectoryStructureFlag = FALSE
    /\ filenamePrefix = <<>>
    /\ svcNil = FALSE
    /\ idx = 0
    /\ file = <<>>
    /\ folderId = NoId
    /\ directoryStructure = <<>>
    /\ dirIdx = 0
    /\ adopted = <<>>
    /\ targetName = <<>>
    /\ r = NoList
    /\ currentFile = Nil
    /\ fi = "none"
    /\ opened = FALSE
    /\ calls = <<>>

\* a start-up step: it fails with err and ends the process, or goes on to next
StartStep(ok, err, next) ==
    /\ startErr' = IF ok THEN startErr ELSE err
    /\ pc' = IF ok THEN next ELSE Fatalf(next)

\* ---------------------------------------------------------------- start-up
GetFilename ==
    /\ pc = "GetFilename"
    /\ \E present \in BOOLEAN : StartStep(present, "filename", "Glob")
    /\ UNCHANGED <<failed, config, perFile>>

Glob ==
    /\ pc = "Glob"
    /\ \E err \in BOOLEAN, n \in 0..MaxFiles :
         /\ err => n = 0
         /\ StartStep(~err /\ n > 0, IF err THEN "pattern" ELSE "nomatch", "GetFolderId")
         /\ nFiles' = n
    /\ UNCHANGED <<failed, name, originalFolderId, overwriteFlag,
                   useCompleteSourceFilenameAsNameFlag, mirrorDirectoryStructureFlag,
                   filenamePrefix, svcNil, perFile>>

GetFolderId ==
    /\ pc = "GetFolderId"
    /\ \E ow \in BoolInputs, nm \in Names, present \in BOOLEAN :
         /\ overwriteFlag' = IF ow = "" THEN FALSE ELSE ParseBool(ow)
         /\ name' = nm
         /\ folderId' = IF present THEN RootId ELSE NoId
         /\ StartStep(present, "folderId", "GetCredentials")
    /\ UNCHANGED <<failed, nFiles, originalFolderId, useCompleteSourceFilenameAsNameFlag,
                   mirrorDirectoryStructureFlag, filenamePrefix, svcNil, idx, file,
                   directoryStructure, dirIdx, adopted, targetName, r, currentFile, fi,
                   opened, calls>>

GetCredentials ==
    /\ pc = "GetCredentials"
    /\ \E uc \in BoolInputs, mi \in BoolInputs, px \in Prefixes, present \in BOOLEAN :
         /\ useCompleteSourceFilenameAsNameFlag' = IF uc = "" THEN FALSE ELSE ParseBool(uc)
         /\ mirrorDirectoryStructureFlag' = IF mi = "" THEN FALSE ELSE ParseBool(mi)
         /\ filenamePrefix' = px
         /\ StartStep(present, "credentials", "DecodeCredentials")
    /\ UNCHANGED <<failed, nFiles, name, originalFolderId, overwriteFlag, svcNil, perFile>>

DecodeCredentials ==
    /\ pc = "DecodeCredentials"
    /\ \E ok \in BOOLEAN : StartStep(ok, "base64", "JWTConfig")
    /\ UNCHANGED <<failed, config, perFile>>

JWTConfig ==
    /\ pc = "JWTConfig"
    /\ \E ok \in BOOLEAN : StartStep(ok, "jwt", "NewService")
    /\ UNCHANGED <<failed, config, perFile>>

\* drive.New: its error is printed and main goes on with a nil service, saving
\* the configured folder id before the loop
NewService ==
    /\ pc = "NewService"
    /\ \E ok \in BOOLEAN :
         /\ svcNil' = ~ok
         /\ startErr' = IF ok THEN startErr ELSE "service"
    /\ originalFolderId' = folderId
    /\ pc' = "loop"
    /\ UNCHANGED <<failed, nFiles, name, overwriteFlag,
                   useCompleteSourceFilenameAsNameFlag, mirrorDirectoryStructureFlag,
                   filenamePrefix, perFile>>

\* ---------------------------------------------------------------- the loop
\* the head of the range loop: the next file, or the end of main
LoopNext ==
    /\ pc = "loop"
    /\ IF idx >= nFiles
       THEN /\ pc' = "exit0"
            /\ UNCHANGED perFile
       ELSE \E f \in Paths :
            /\ idx' = idx + 1
            /\ file' = f
            /\ folderId' = StartFolderId(originalFolderId, folderId)
            /\ directoryStructure' =
                 IF mirrorDirectoryStructureFlag THEN DirectoryStructure(f) ELSE <<>>
            /\ dirIdx' = 1
            /\ adopted' = <<>>
            /\ targetName' = <<>>
            /\ r' = NoList
            /\ currentFile' = Nil
            /\ fi' = "none"
            /\ opened' = FALSE
            /\ calls' = <<>>
            /\ pc' = IF mirrorDirectoryStructureFlag /\ DirectoryStructure(f) # <<>>
                     THEN "mirror" ELSE "name"
    /\ UNCHANGED <<startErr, failed, config>>

\* one call of createDriveDirectory from the segment loop of main
CreateDriveDirectory ==
    /\ pc = "mirror"
    /\ LET dir == directoryStructure[dirIdx]
           next == IF dirIdx >= Len(directoryStructure) THEN "name" ELSE "mirror"
           list(ok) == Call("list", "folder", dir, folderId, NoId, ok)
       IN  IF svcNil
           THEN /\ pc' = "panic"
                /\ UNCHANGED <<failed, folderId, dirIdx, adopted, r, calls>>
           ELSE \E listOk \in BOOLEAN :
                IF ~listOk
                THEN /\ calls' = Append(calls, list(FALSE))
                     /\ failed' = "folderList"
                     /\ pc' = Fatalf(next)
                     /\ dirIdx' = dirIdx + 1
                     /\ UNCHANGED <<folderId, adopted, r>>
                ELSE \E files \in FolderLists(dir, folderId) :
                     LET s == ScanFolders(files, folderId) IN
                     /\ r' = [kind |-> "folder", files |-> files]
                     /\ dirIdx' = dirIdx + 1
                     /\ IF s.found # 0
                        THEN /\ calls' = Append(calls, list(TRUE))
                             /\ folderId' = s.next
                             /\ adopted' = Append(adopted, s.next)
                             /\ pc' = next
                             /\ UNCHANGED failed
                        ELSE \E createOk \in BOOLEAN :
                             LET id == IF createOk THEN NewFolderId(idx, dirIdx) ELSE NoId IN
                             /\ calls' = calls \o
                                  << list(TRUE),
                                     Call("create", "folder", dir, folderId, id, createOk) >>
                             /\ failed' = IF createOk THEN failed ELSE "folderCreate"
                             /\ folderId' = IF createOk THEN id ELSE folderId
                             /\ adopted' = IF createOk THEN Append(adopted, id) ELSE adopted
                             /\ pc' = IF createOk THEN next ELSE Fatalf(next)
    /\ UNCHANGED <<startErr, config, idx, file, directoryStructure, targetName,
                   currentFile, fi, opened>>

\* the name resolver of main
ResolveName ==
    /\ pc = "name"
    /\ LET t == TargetName(file, useCompleteSourceFilenameAsNameFlag, nFiles, name,
                           filenamePrefix)
       IN  /\ targetName' = t
           /\ failed' = IF t = <<>> THEN "name" ELSE failed
           /\ pc' = IF t = <<>> THEN Fatalf("uploadFile") ELSE "uploadFile"
    /\ r' = NoList
    /\ UNCHANGED <<startErr, config, idx, file, folderId, directoryStructure, dirIdx,
                   adopted, currentFile, fi, opened, calls>>

\* uploadFile up to its call of uploadToDrive
UploadFile ==
    /\ pc = "uploadFile"
    /\ IF ~LookupWanted(overwriteFlag)
       THEN /\ pc' = "uploadToDrive"
            /\ UNCHANGED <<failed, r, currentFile, calls>>
       ELSE IF svcNil
       THEN /\ pc' = "panic"
            /\ UNCHANGED <<failed, r, currentFile, calls>>
       ELSE \E listOk \in BOOLEAN :
            IF ~listOk
            THEN /\ calls' = Append(calls, Call("list", "file", targetName, NoId, NoId, FALSE))
                 /\ failed' = "fileList"
                 /\ pc' = Fatalf("uploadToDrive")
                 /\ UNCHANGED <<r, currentFile>>
            ELSE \E files \in FileLists(targetName, folderId) :
                 /\ calls' = Append(calls, Call("list", "file", targetName, NoId, NoId, TRUE))
                 /\ r' = [kind |-> "file", files |-> files]
                 /\ currentFile' = SelectCurrentFile(files, targetName, folderId)
                 /\ pc' = "uploadToDrive"
                 /\ UNCHANGED failed
    /\ UNCHANGED <<startErr, config, idx, file, folderId, directoryStructure, dirIdx,
                   adopted, targetName, fi, opened>>

\* uploadToDrive
UploadToDrive ==
    /\ pc = "uploadToDrive"
    /\ \E st \in LstatOutcomes(file) :
         /\ fi' = st
         /\ IF st = "err"
            THEN /\ failed' = "lstat"
                 /\ pc' = Fatalf("loop")
                 /\ UNCHANGED <<opened, calls>>
            ELSE IF SkipDirectory(st = "dir")
            THEN /\ pc' = "loop"
                 /\ UNCHANGED <<failed, opened, calls>>
            ELSE \E openOk \in BOOLEAN :
                 /\ opened' = openOk
                 /\ IF ~openOk
                    THEN /\ failed' = "open"
                         /\ pc' = Fatalf("loop")
                         /\ UNCHANGED calls
                    ELSE IF svcNil
                    THEN /\ pc' = "panic"
                         /\ UNCHANGED <<failed, calls>>
                    ELSE \E ok \in BOOLEAN :
                         /\ calls' = Append(calls,
                              IF currentFile # Nil
                              THEN Call("update", "file", targetName, folderId,
                                        currentFile.id, ok)
                              ELSE Call("create", "file", targetName, folderId, NoId, ok))
                         /\ failed' = IF ok THEN failed
                                      ELSE IF currentFile # Nil THEN "fileUpdate"
                                      ELSE "fileCreate"
                         /\ pc' = IF ok THEN "loop" ELSE Fatalf("loop")
    /\ r' = NoList
    /\ UNCHANGED <<startErr, config, idx, file, folderId, directoryStructure, dirIdx,
                   adopted, targetName, currentFile>>

Next ==
    \/ GetFilename
    \/ Glob
    \/ GetFolderId
    \/ GetCredentials
    \/ DecodeCredentials
    \/ JWTConfig
    \/ NewService
    \/ LoopNext
    \/ CreateDriveDirectory
    \/ ResolveName
    \/ UploadFile
    \/ UploadToDrive

Spec == Init /\ [][Next]_vars

\* ---------------------------------------------------------------- reading the log
IsContent(c) == c.kind = "file" /\ c.op \in {"create", "update"}

\* positions in calls of the content calls, folder lookups, folder creates
ContentAt == {k \in DOMAIN calls : IsContent(calls[k])}

FolderListAt == {k \in DOMAIN calls : calls[k].kind = "folder" /\ calls[k].op = "list"}

FolderCreateAt == {k \in DOMAIN calls : calls[k].kind = "folder" /\ calls[k].op = "create"}

FileListAt == {k \in DOMAIN calls : calls[k].kind = "file" /\ calls[k].op = "list"}

UpdateAt == {k \in DOMAIN calls : calls[k].op = "update"}

FileCreateAt == {k \in DOMAIN calls : calls[k].kind = "file" /\ calls[k].op = "create"}

Min(S) == CHOOSE m \in S : \A x \in S : m <= x

Max(S) == CHOOSE m \in S : \A x \in S : m >= x

\* the k-th smallest element of a set of numbers
RECURSIVE Nth(_, _)
Nth(S, k) == IF k = 1 THEN Min(S) ELSE Nth(S \ {Min(S)}, k - 1)

\* positions of r.files whose object is named nm and has fid among its parents
InFolder(files, nm, fid) ==
    {k \in DOMAIN files : files[k].name = nm /\ fid \in files[k].parents}

\* the local file was read and handed to the service: uploadToDrive got as far
\* as its create/update call
Handed == fi = "reg" /\ opened /\ ~svcNil

\* the final component of a path: the separator-free stretch that ends at its
\* last character other than a separator
FinalComponent(p) ==
    LET e == Max({i \in 1..Len(p) : p[i] # Sep})
        starts == {i \in 1..e : \A j \in i..e : p[j] # Sep}
    IN  SubSeq(p, Min(starts), e)

\* the folder a file of this run is meant to land in
TargetFolder ==
    IF mirrorDirectoryStructureFlag /\ adopted # <<>> THEN adopted[Len(adopted)]
    ELSE originalFolderId

\* ---------------------------------------------------------------- claims
\* C1: with overwrite enabled the object chosen as update target is named as
\* the target and has the target folder among its parents; when no returned
\* object is both, nothing is chosen, no update call is issued and the file is
\* created.
C1_UpdateTargetInFolder ==
    overwriteFlag =>
        /\ currentFile # Nil =>
              currentFile.name = targetName /\ folderId \in currentFile.parents
        /\ (r.kind = "file" /\ InFolder(r.files, targetName, folderId) = {}) =>
              currentFile = Nil
        /\ \A k \in UpdateAt : folderId \in currentFile.parents

\* C2: the name passed to the upload is prefix + base, base being the matched
\* path when the full-source flag is set, else the path's final component when
\* more than one file matched or no name is configured, else the configured
\* name.
C2_ResolvedName ==
    LET base == IF useCompleteSourceFilenameAsNameFlag THEN file
                ELSE IF nFiles > 1 \/ name = <<>> THEN FinalComponent(file)
                ELSE name
    IN  /\ pc \in {"uploadFile", "uploadToDrive"} => targetName = filenamePrefix \o base
        /\ \A k \in DOMAIN calls :
              calls[k].kind = "file" => calls[k].name = filenamePrefix \o base

C2_Witness ==
    /\ nFiles > 1 /\ idx = 2
    /\ name = <<"N">> /\ filenamePrefix = <<"p">>
    /\ ~useCompleteSourceFilenameAsNameFlag
    /\ file = <<"a", "/", "b", "/", "f">>
    /\ \E k \in FileCreateAt : calls[k].name = <<"p", "f">> /\ calls[k].ok

\* C3: in a mirroring run, when a file's own create/update call is issued, the
\* folder lookups before it are one per segment of the file's directory, in
\* segment order; the first is relative to the configured root, each later one
\* to the id adopted for the segment before it; a folder create follows its
\* lookup under the same parent; and the file's call targets the id adopted
\* for the last segment, which is not the root.
C3_MirrorChain ==
    (mirrorDirectoryStructureFlag /\ ContentAt # {}) =>
        LET segs == directoryStructure
            n == Len(segs)
            at(j) == Nth(FolderListAt, j)
        IN  /\ Cardinality(FolderListAt) = n
            /\ Len(adopted) = n
            /\ \A j \in 1..n :
                 /\ calls[at(j)].name = segs[j]
                 /\ calls[at(j)].folder = IF j = 1 THEN originalFolderId ELSE adopted[j - 1]
                 /\ at(j) < Min(ContentAt)
            /\ \A k \in FolderCreateAt :
                 /\ k - 1 \in FolderListAt
                 /\ calls[k].name = calls[k - 1].name
                 /\ calls[k].folder = calls[k - 1].folder
                 /\ k < Min(ContentAt)
                 /\ \E j \in 1..n : at(j) = k - 1 /\ adopted[j] = calls[k].id
            /\ \A k \in ContentAt :
                 calls[k].folder = adopted[n] /\ calls[k].folder # originalFolderId

C3_Witness ==
    /\ mirrorDirectoryStructureFlag
    /\ idx = 2
    /\ directoryStructure = << <<"a">>, <<"b">> >>
    /\ Len(adopted) = 2 /\ adopted[1] = FolderObjId(2) /\ adopted[2] = NewFolderId(2, 2)
    /\ \E k \in ContentAt : calls[k].ok /\ calls[k].folder = NewFolderId(2, 2)

\* C4: with overwrite enabled, when the lookup returns an object named as the
\* target with the target folder among its parents, the first such object in
\* the returned order is chosen; the file's only content call is then one
\* update addressed to that object's id with the target folder as added
\* parent, and no create.
C4_UpdateFirstMatch ==
    overwriteFlag =>
        /\ (r.kind = "file" /\ InFolder(r.files, targetName, folderId) # {}) =>
              currentFile = r.files[Min(InFolder(r.files, targetName, folderId))]
        /\ (currentFile # Nil /\ currentFile.name = targetName
                /\ folderId \in currentFile.parents) =>
              /\ FileCreateAt = {}
              /\ Cardinality(UpdateAt) <= 1
              /\ \A k \in UpdateAt :
                    /\ calls[k].id = currentFile.id
                    /\ calls[k].folder = folderId
                    /\ calls[k].name = targetName
              /\ Handed => Cardinality(UpdateAt) = 1

C4_Witness ==
    /\ overwriteFlag
    /\ currentFile.id = FileObjId(2)
    /\ folderId \in currentFile.parents
    /\ Handed
    /\ \E k \in UpdateAt : calls[k].ok /\ calls[k].id = FileObjId(2)

\* C5: with overwrite disabled no file-name lookup and no update is issued;
\* a file handed to the service gets exactly one create call, with the target
\* folder as its only parent and the resolved name.
C5_CreateOnly ==
    ~overwriteFlag =>
        /\ FileListAt = {}
        /\ UpdateAt = {}
        /\ currentFile = Nil
        /\ Cardinality(FileCreateAt) <= 1
        /\ \A k \in FileCreateAt :
              calls[k].folder = TargetFolder /\ calls[k].name = targetName
        /\ Handed => Cardinality(FileCreateAt) = 1

C5_Witness ==
    /\ ~overwriteFlag
    /\ mirrorDirectoryStructureFlag
    /\ Handed
    /\ \E k \in FileCreateAt : calls[k].ok /\ calls[k].folder = FolderObjId(1)

\* C6: when a start-up step fails the run is in its failure state, the loop
\* was never entered and no remote call was issued.
C6_StartupFailureAborts ==
    startErr # "none" => pc = "fatal" /\ idx = 0 /\ calls = <<>>

\* C7: files are taken one at a time in order; a failed step ends the run in
\* the failure state; no step is taken after that, so no later call is issued
\* for this file or the next and what was created stays; within a file the log
\* only grows and a failed call is its last entry.
C7_FirstFailureAborts ==
    [][ /\ pc # "fatal"
        /\ failed' # "none" => pc' = "fatal"
        /\ idx' = idx \/ (idx' = idx + 1 /\ pc = "loop" /\ idx < nFiles)
        /\ idx' = idx => /\ Len(calls') >= Len(calls)
                         /\ SubSeq(calls', 1, Len(calls)) = calls
        /\ \A k \in 1..(Len(calls') - 1) : calls'[k].ok
        /\ pc' = "exit0" => failed = "none" /\ idx = nFiles
      ]_vars

C7_Witness ==
    /\ pc = "fatal"
    /\ failed = "fileCreate"
    /\ idx = 1 /\ nFiles = 2
    /\ \E k \in FolderCreateAt : calls[k].ok
    /\ ~calls[Len(calls)].ok

\* C8: a matched directory gets no content call and does not fail the run: the
\* loop goes on to the next path, or ends in success after the last.
C8_DirectorySkipped ==
    [][ /\ fi' = "dir" =>
              /\ pc' \in {"loop", "exit0"}
              /\ failed' = "none"
              /\ \A k \in DOMAIN calls' : ~IsContent(calls'[k])
        /\ (fi = "dir" /\ pc = "loop") =>
              IF idx < nFiles
              THEN idx' = idx + 1 /\ pc' \in {"mirror", "name"}
              ELSE pc' = "exit0"
      ]_vars

C8_Witness ==
    /\ pc = "exit0"
    /\ fi = "dir"
    /\ idx = 2 /\ nFiles = 2
    /\ overwriteFlag
    /\ FileListAt # {}
    /\ ContentAt = {}

C10_NeverIntoRoot ==
    mirrorDirectoryStructureFlag =>
        /\ (pc \in {"name", "uploadFile", "uploadToDrive"} \/ ContentAt # {}) =>
              FolderListAt # {}
        /\ (\A j \in DOMAIN file : file[j] # Sep) =>
              \A k \in FolderListAt :
                 /\ k = 1
                 /\ calls[k].name = <<".">>
                 /\ calls[k].folder = originalFolderId
        /\ \A k \in ContentAt : calls[k].folder # originalFolderId

C10_Witness ==
    /\ mirrorDirectoryStructureFlag
    /\ file = <<"f">>
    /\ Len(calls) = 3
    /\ calls[1].op = "list" /\ calls[1].name = <<".">>
    /\ calls[2].op = "create" /\ calls[2].kind = "folder" /\ calls[2].name = <<".">>
    /\ calls[2].folder = originalFolderId
    /\ IsContent(calls[3]) /\ calls[3].ok /\ calls[3].folder = NewFolderId(1, 1)

====
